---- MODULE Spec2Model ----
(***************************************************************************)
(* Model of qa.py, a Streamlit page around an extractive question          *)
(* answering pipeline.  One Streamlit session is modelled: every user      *)
(* interaction (initial render, edit of a text input, button press,        *)
(* manual rerun) executes main() from the top.  A script run is the        *)
(* sequence of steps of main(); pc is the position inside the run and      *)
(* "idle" is the state between two runs, in which display still holds      *)
(* the page the last run produced.                                         *)
(*                                                                         *)
(* Confidence scores are fixed-point numbers in units of 1/100000, so      *)
(* 50000 is 0.5 and 100000 is 1.0.  Non-ASCII characters of the page       *)
(* texts (emoji, the superscript of mc2) are left out of the strings.      *)
(***************************************************************************)
EXTENDS Integers, Sequences, FiniteSets, TLC

VARIABLES
    pc,             \* position of the current script run, "idle" between runs
    runs,           \* script runs started in this session
    context,        \* value of the text_area widget
    question,       \* value of the text_input widget
    button,         \* value st.button returns in the current run
    formShown,      \* the last finished run rendered the widgets
    qa_pipeline,    \* local of main(): None or the handle of the loaded model
    loadCalls,      \* calls of transformers.pipeline(...) in this session
    loadRaised,     \* pipeline(...) raised in the current run
    calls,          \* calls qa_pipeline(question=, context=) of the current run
    result,         \* what the model call of the current run returned
    exc,            \* message of the exception being handled in the current run
    display,        \* elements the current run has put on the page, in order
    stopped,        \* the current run ended in st.stop()
    loadFailedEver, \* history: some run of the session failed to load the model
    extractErrEver, \* history: some run of the session displayed the inline error
    handlesUsed     \* history: handles on which the model was called

vars == << pc, runs, context, question, button, formShown, qa_pipeline,
           loadCalls, loadRaised, calls, result, exc, display, stopped,
           loadFailedEver, extractErrEver, handlesUsed >>

----------------------------------------------------------------------------
(* Bounds *)

MaxRuns == 5

----------------------------------------------------------------------------
(* Values *)

None == 0

DefaultContext ==
    "Albert Einstein was a renowned physicist who developed the theory of relativity. Born in Germany in 1879, he is best known for his mass-energy equivalence formula E = mc2. Einstein won the Nobel Prize in Physics in 1921 for his services to theoretical physics."

DefaultQuestion == ""

\* what the user can type into the text area / the text input
Contexts == {DefaultContext, "", "Paris is the capital of France."}
Questions == {"", "When did Einstein win the Nobel Prize?"}

\* answers and scores the external model can return; no score is an exact
\* rounding tie of the two-decimal percentage (no score ends in 5)
Answers == {"1921", "Paris"}
Scores == {0, 49996, 50000, 98764}

Threshold == 50000
DefaultScore == 0

NoResult == [hasAnswer |-> FALSE, answer |-> "", hasScore |-> FALSE,
             numeric |-> FALSE, score |-> 0]

\* the structures qa_pipeline(...) can return: a dict with or without the
\* keys 'answer' and 'score', the score a number or not (None, a string)
ModelResults ==
    {[hasAnswer |-> TRUE, answer |-> a, hasScore |-> TRUE,
      numeric |-> TRUE, score |-> s] : a \in Answers, s \in Scores}
    \cup {[hasAnswer |-> TRUE, answer |-> a, hasScore |-> TRUE,
           numeric |-> FALSE, score |-> 0] : a \in Answers}
    \cup {[hasAnswer |-> TRUE, answer |-> a, hasScore |-> FALSE,
           numeric |-> FALSE, score |-> 0] : a \in Answers}
    \cup {[hasAnswer |-> FALSE, answer |-> "", hasScore |-> TRUE,
           numeric |-> TRUE, score |-> s] : s \in {0, 98764}}

\* messages of the exceptions the try block can raise
ModelError == "inference failed"
KeyErrorAnswer == "'answer'"
FormatError == "unsupported format string passed to NoneType.__format__"

El(kind, body) == [kind |-> kind, body |-> body]

Shows(kind) == \E i \in 1..Len(display) : display[i].kind = kind

ShowsEl(kind, body) ==
    \E i \in 1..Len(display) : display[i].kind = kind /\ display[i].body = body

CountEl(kind) == Cardinality({i \in 1..Len(display) : display[i].kind = kind})

----------------------------------------------------------------------------
(* Pure parts of main() *)

TwoDigits(n) == IF n < 10 THEN "0" \o ToString(n) ELSE ToString(n)

\* f"{confidence:.2%}": times 100, rounded to two decimals, then "%"
FormatPercent(c) ==
    LET h == (c + 5) \div 10
    IN  ToString(h \div 100) \o "." \o TwoDigits(h % 100) \o "%"

\* if st.button("Get Answer", type="primary"):
Pressed_always(b) == TRUE

Pressed(b) == b

InputsProvided_contextOnly(ctx, q) == ctx # ""

\* if context and question:
InputsProvided(ctx, q) == ctx # "" /\ q # ""

GetScore_defaultOne(r) == IF r.hasScore THEN r.score ELSE 100000

\* result.get('score', 0)
GetScore(r) == IF r.hasScore THEN r.score ELSE DefaultScore

IsLowConfidence_inclusive(c) == c <= Threshold

\* if confidence < 0.5:
IsLowConfidence(c) == c < Threshold

CallArgs_swapped(h, q, ctx) == [handle |-> h, question |-> ctx, context |-> q]

\* qa_pipeline(question=question, context=context)
CallArgs(h, q, ctx) == [handle |-> h, question |-> q, context |-> ctx]

LoadResult_unchecked(raised, h) == h

\* what load_qa_model returns
LoadResult(raised, h) == IF raised THEN None ELSE h

ErrorElems_silent(e) == << >>

\* st.error(f"Error processing your question: {e}")
ErrorElems(e) == << El("error", "Error processing your question: " \o e) >>

LowConfidenceText ==
    "The confidence is relatively low. The answer might not be entirely accurate."
MissingInputText == "Please provide both a context and a question."
LoadFailedText ==
    "Failed to load the Question Answering model. Please check your installation."

\* lines 76-85: the elements displayed from a returned result, up to the
\* first statement that raises
ResultElems(r) ==
    IF ~r.hasAnswer THEN << >>
    ELSE << El("subheader", "Answer:"), El("success", r.answer) >>
         \o (IF r.hasScore /\ ~r.numeric THEN << >>
             ELSE << El("metric", FormatPercent(GetScore(r))) >>
                  \o (IF IsLowConfidence(GetScore(r))
                      THEN << El("warning", LowConfidenceText) >>
                      ELSE << >>))

\* the exception lines 76-85 raise on a returned result, "" if none
ResultRaises(r) ==
    IF ~r.hasAnswer THEN KeyErrorAnswer
    ELSE IF r.hasScore /\ ~r.numeric THEN FormatError
    ELSE ""

----------------------------------------------------------------------------
Init ==
    /\ pc = "idle"
    /\ runs = 0
    /\ context = DefaultContext
    /\ question = DefaultQuestion
    /\ button = FALSE
    /\ formShown = FALSE
    /\ qa_pipeline = None
    /\ loadCalls = 0
    /\ loadRaised = FALSE
    /\ calls = << >>
    /\ result = NoResult
    /\ exc = ""
    /\ display = << >>
    /\ stopped = FALSE
    /\ loadFailedEver = FALSE
    /\ extractErrEver = FALSE
    /\ handlesUsed = {}

\* Streamlit starts a script run: main() is entered, the page is cleared,
\* set_page_config and title execute
StartRun(ctx, q, b) ==
    /\ pc = "idle"
    /\ runs < MaxRuns
    /\ runs' = runs + 1
    /\ context' = ctx
    /\ question' = q
    /\ button' = b
    /\ qa_pipeline' = None
    /\ loadRaised' = FALSE
    /\ calls' = << >>
    /\ result' = NoResult
    /\ exc' = ""
    /\ display' = << El("title", "Question Answering Assistant") >>
    /\ stopped' = FALSE
    /\ pc' = "load"
    /\ UNCHANGED << formShown, loadCalls, loadFailedEver, extractErrEver,
                    handlesUsed >>

\* first render of the session, or a rerun the user asks for without
\* touching a widget
Rerun ==
    /\ pc = "idle"
    /\ StartRun(context, question, FALSE)

EditContext ==
    /\ formShown
    /\ \E ctx \in Contexts \ {context} : StartRun(ctx, question, FALSE)

EditQuestion ==
    /\ formShown
    /\ \E q \in Questions \ {question} : StartRun(context, q, FALSE)

PressButton ==
    /\ formShown
    /\ StartRun(context, question, TRUE)

\* qa_pipeline = load_qa_model()
LoadModel ==
    /\ pc = "load"
    /\ \E raised \in BOOLEAN :
        /\ loadRaised' = raised
        /\ qa_pipeline' = LoadResult(raised, loadCalls + 1)
        /\ display' = IF raised
                      THEN Append(display, El("error", "Error loading model: "
                                                       \o "load failed"))
                      ELSE display
        /\ loadFailedEver' = (loadFailedEver \/ raised)
    /\ loadCalls' = loadCalls + 1
    /\ pc' = "gate"
    /\ UNCHANGED << runs, context, question, button, formShown, calls, result,
                    exc, stopped, extractErrEver, handlesUsed >>

\* if qa_pipeline is None: st.error(...); st.stop()
StopOnNone ==
    /\ pc = "gate"
    /\ qa_pipeline = None
    /\ display' = Append(display, El("error", LoadFailedText))
    /\ stopped' = TRUE
    /\ formShown' = FALSE
    /\ context' = DefaultContext
    /\ question' = DefaultQuestion
    /\ pc' = "idle"
    /\ UNCHANGED << runs, button, qa_pipeline, loadCalls, loadRaised, calls,
                    result, exc, loadFailedEver, extractErrEver, handlesUsed >>

\* sidebar, context text area, question text input, button
RenderForm ==
    /\ pc = "gate"
    /\ qa_pipeline # None
    /\ display' = display \o
           << El("sidebar.header", "How to Use"),
              El("sidebar.info", "usage instructions"),
              El("header", "Context"),
              El("text_area", context),
              El("header", "Your Question"),
              El("text_input", question),
              El("button", "Get Answer") >>
    /\ pc' = "button"
    /\ UNCHANGED << runs, context, question, button, formShown, qa_pipeline,
                    loadCalls, loadRaised, calls, result, exc, stopped,
                    loadFailedEver, extractErrEver, handlesUsed >>

\* if st.button(...): is false
ButtonNotPressed ==
    /\ pc = "button"
    /\ ~Pressed(button)
    /\ pc' = "footer"
    /\ UNCHANGED << runs, context, question, button, formShown, qa_pipeline,
                    loadCalls, loadRaised, calls, result, exc, display,
                    stopped, loadFailedEver, extractErrEver, handlesUsed >>

\* else branch of "if context and question"
WarnMissingInput ==
    /\ pc = "button"
    /\ Pressed(button)
    /\ ~InputsProvided(context, question)
    /\ display' = Append(display, El("warning", MissingInputText))
    /\ pc' = "footer"
    /\ UNCHANGED << runs, context, question, button, formShown, qa_pipeline,
                    loadCalls, loadRaised, calls, result, exc, stopped,
                    loadFailedEver, extractErrEver, handlesUsed >>

\* result = qa_pipeline(question=question, context=context)
CallModel ==
    /\ pc = "button"
    /\ Pressed(button)
    /\ InputsProvided(context, question)
    /\ calls' = Append(calls, CallArgs(qa_pipeline, question, context))
    /\ handlesUsed' = handlesUsed \cup {qa_pipeline}
    /\ \/ /\ \E r \in ModelResults : result' = r
          /\ exc' = exc
          /\ pc' = "show"
       \/ /\ exc' = ModelError
          /\ result' = result
          /\ pc' = "except"
    /\ UNCHANGED << runs, context, question, button, formShown, qa_pipeline,
                    loadCalls, loadRaised, display, stopped, loadFailedEver,
                    extractErrEver >>

\* the rest of the try block: subheader, success, metric, warning
ShowResult ==
    /\ pc = "show"
    /\ display' = display \o ResultElems(result)
    /\ exc' = ResultRaises(result)
    /\ pc' = IF ResultRaises(result) = "" THEN "footer" ELSE "except"
    /\ UNCHANGED << runs, context, question, button, formShown, qa_pipeline,
                    loadCalls, loadRaised, calls, result, stopped,
                    loadFailedEver, extractErrEver, handlesUsed >>

AfterExcept_stop == "idle"

\* where main() continues after the except block
AfterExcept == "footer"

\* except Exception as e: st.error(...)
HandleError ==
    /\ pc = "except"
    /\ display' = display \o ErrorElems(exc)
    /\ extractErrEver' = TRUE
    /\ pc' = AfterExcept
    /\ UNCHANGED << runs, context, question, button, formShown, qa_pipeline,
                    loadCalls, loadRaised, calls, result, exc, stopped,
                    loadFailedEver, handlesUsed >>

\* the two st.markdown calls; main() returns
Footer ==
    /\ pc = "footer"
    /\ display' = display \o
           << El("markdown", "---"),
              El("markdown", "*Presented to you  by Shamitha Reddy N and Team (Powered by Hugging Face Transformers*)") >>
    /\ formShown' = TRUE
    /\ pc' = "idle"
    /\ UNCHANGED << runs, context, question, button, qa_pipeline, loadCalls,
                    loadRaised, calls, result, exc, stopped, loadFailedEver,
                    extractErrEver, handlesUsed >>

Next ==
    \/ Rerun
    \/ EditContext
    \/ EditQuestion
    \/ PressButton
    \/ LoadModel
    \/ StopOnNone
    \/ RenderForm
    \/ ButtonNotPressed
    \/ WarnMissingInput
    \/ CallModel
    \/ ShowResult
    \/ HandleError
    \/ Footer

Spec == Init /\ [][Next]_vars

----------------------------------------------------------------------------
(* Properties *)

\* the last script run has finished and display is the page it left
Finished == pc = "idle" /\ runs > 0

\* the model was loaded in the current run
Loaded == pc \notin {"load"} /\ runs > 0 /\ qa_pipeline # None

ExtractErrorBodies ==
    {"Error processing your question: " \o e :
        e \in {ModelError, KeyErrorAnswer, FormatError}}

ShowsExtractError ==
    \E i \in 1..Len(display) :
        display[i].kind = "error" /\ display[i].body \in ExtractErrorBodies

ShowsLowConfidence == ShowsEl("warning", LowConfidenceText)

ShowsForm ==
    \/ Shows("sidebar.header") \/ Shows("sidebar.info") \/ Shows("text_area")
    \/ Shows("text_input") \/ Shows("button") \/ Shows("markdown")

\* C1: a finished run with the model loaded, the button pressed and both
\* inputs non-empty has displayed the answer with the confidence metric, or
\* the extraction error; never neither.
C1_AnswerOrError ==
    (Finished /\ Loaded /\ button /\ context # "" /\ question # "")
        => \/ Shows("success") /\ Shows("metric")
           \/ ShowsExtractError

C1_Witness_Answer ==
    /\ Finished /\ Loaded /\ button /\ context # "" /\ question # ""
    /\ Shows("success") /\ Shows("metric") /\ ~ShowsExtractError

\* C2: when the model returned an answer with a numeric confidence c, the
\* finished run shows the low-confidence warning exactly if c < 0.5; at
\* c = 0.5 there is no warning.
C2_WarningIffBelowHalf ==
    (Finished /\ calls # << >> /\ result.hasAnswer /\ result.hasScore
              /\ result.numeric)
        => (ShowsLowConfidence <=> result.score < 50000)

C2_Witness_Boundary ==
    /\ Finished /\ calls # << >> /\ result.hasAnswer /\ result.hasScore
    /\ result.numeric /\ result.score = 50000
    /\ ShowsEl("metric", "50.00%") /\ ~ShowsLowConfidence

\* C3: a run that reaches the button with the button pressed and an empty
\* context or question never calls the model, and finishes showing the
\* "Please provide both" text as a warning, not as an error.
C3_MissingInputWarns ==
    (Loaded /\ button /\ (context = "" \/ question = ""))
        => /\ calls = << >>
           /\ handlesUsed \cap {qa_pipeline} = {}
           /\ Finished => /\ ShowsEl("warning", MissingInputText)
                          /\ ~Shows("error")

C3_Witness_EmptyQuestion ==
    /\ Finished /\ Loaded /\ button /\ context # "" /\ question = ""
    /\ ShowsEl("warning", MissingInputText)

\* C4: in a run whose model loading raised, load_qa_model returned None, an
\* error is on the page, and the run ends in st.stop() with no part of the
\* form, no model call and no footer.
C4_FailedLoadStops ==
    loadRaised
        => /\ qa_pipeline = None
           /\ Shows("error")
           /\ ~ShowsForm
           /\ calls = << >>
           /\ pc \in {"gate", "idle"}
           /\ pc = "idle" => stopped /\ ShowsEl("error", LoadFailedText)

C4_Witness_Stopped == loadRaised /\ pc = "idle" /\ stopped

\* C5: a finished run with the model loaded, the button pressed and both
\* inputs non-empty has called the model exactly once, with that question
\* and that context; no run ever calls it more than once.
C5_CalledExactlyOnce ==
    /\ Len(calls) <= 1
    /\ (Finished /\ Loaded /\ button /\ context # "" /\ question # "")
          => calls = << [handle |-> qa_pipeline, question |-> question,
                         context |-> context] >>

C5_Witness_CallAfterFailure ==
    /\ Finished /\ Loaded /\ button /\ Len(calls) = 1 /\ exc = ModelError

\* C6: a run in which the try block raised finishes with the inline error
\* naming the exception, the footer rendered, no st.stop(), and the form
\* available for the next submission.
C6_ExtractionErrorNonFatal ==
    (Finished /\ exc # "")
        => /\ ShowsEl("error", "Error processing your question: " \o exc)
           /\ CountEl("markdown") = 2
           /\ ~stopped
           /\ formShown

\* a later submission of the session invoked the model and displayed an answer
C6_Witness_LaterAnswer ==
    /\ extractErrEver /\ Finished /\ exc = "" /\ button
    /\ Len(calls) = 1 /\ Shows("success") /\ Shows("metric")

\* C7: the model is loaded a single time in a session and every model call
\* uses the same handle.
C7_LoadedOncePerSession ==
    /\ loadCalls <= 1
    /\ Cardinality(handlesUsed) <= 1

\* C8: once a model load has failed in the session, no later run reaches the
\* form or calls the model.
C8_FailedLoadFatalToSession ==
    loadFailedEver
        => /\ pc \notin {"button", "show", "except", "footer"}
           /\ ~ShowsForm
           /\ calls = << >>

\* C9: a run in which the button is not pressed never calls the model and
\* never shows an answer, a confidence metric, a warning or an extraction
\* error, whatever earlier runs of the session showed.
C9_NothingWithoutButton ==
    (runs > 0 /\ ~button)
        => /\ calls = << >>
           /\ result = NoResult
           /\ ~Shows("subheader") /\ ~Shows("success") /\ ~Shows("metric")
           /\ ~Shows("warning")
           /\ ~ShowsExtractError

C9_Witness_AfterAnswer ==
    /\ Finished /\ ~button /\ Loaded /\ CountEl("markdown") = 2
    /\ handlesUsed # {} /\ extractErrEver

\* C10: when the model returned an answer without a score, the run shows the
\* answer, the metric 0.00% and the low-confidence warning, and no error.
C10_MissingScoreIsZero ==
    (pc \in {"footer", "idle"} /\ calls # << >> /\ result.hasAnswer
                               /\ ~result.hasScore)
        => /\ ShowsEl("success", result.answer)
           /\ ShowsEl("metric", "0.00%")
           /\ ShowsLowConfidence
           /\ ~Shows("error")
           /\ exc = ""

C10_Witness_NoScore ==
    /\ Finished /\ calls # << >> /\ result.hasAnswer /\ ~result.hasScore
    /\ ShowsEl("metric", "0.00%")

====
